---- MODULE Spec2Model ----
(***************************************************************************)
(* State-machine model of src/fantastic_screenshot.py (class               *)
(* ScreenshotTool): the control window's three memories (last region, last *)
(* width/height, displayed last dimension), the status line, the overlay   *)
(* window with its canvas items and event bindings, and the handlers the   *)
(* Tk event loop dispatches serially; the keyboard listener thread that    *)
(* runs the Ctrl+D callback; and the category counters file.               *)
(*                                                                         *)
(* Conventions                                                             *)
(*   - Python None is the empty tuple; an optional integer v is <<v>>.     *)
(*     Widget and canvas-item handles are positive integers and 0 stands   *)
(*     for None (the code only tests them for truthiness).                 *)
(*   - Canvas coordinates are the floats Tk keeps; every value that        *)
(*     reaches a rectangle is an integer (event.x/event.y and integer      *)
(*     translations), so int() truncation is exact on them.  The label     *)
(*     position (x1+x2)/2 can be a half pixel and is kept in half-pixel    *)
(*     units.                                                              *)
(*   - The external collaborators (ImageGrab.grab, the save dialog,        *)
(*     Image.save) are inputs: each take_screenshot draws their outcome.   *)
(***************************************************************************)
EXTENDS Integers, Sequences, FiniteSets, TLC

\* ------------------------------------------------------------------ bounds
\* Pointer events carry x in 0..MaxX and y in 0..MaxY; the guards of the
\* translating handlers keep a rectangle within one movement step of that
\* range on the far side.
MaxX == 1
MaxY == 1
\* Events dispatched during one run.
MaxEvents == 6
\* Counts kept in the counters file range over 0..MaxCount.
MaxCount == 1

\* ------------------------------------------------------- program constants
movement_step == 1
AlphaDraw == 30
AlphaRegion == 15
LabelOffset == 20

XS == 0..MaxX
YS == 0..MaxY

None == <<>>
Some(v) == <<v>>

Abs(n) == IF n < 0 THEN -n ELSE n
Min(a, b) == IF a <= b THEN a ELSE b
Max(a, b) == IF a >= b THEN a ELSE b

Directions == {"left", "right", "up", "down"}
CategoryNames == {"a", "b"}

\* ------------------------------------------------------------- status line
StatusText(kind, s, a, b) == [kind |-> kind, s |-> s, a |-> a, b |-> b]
StatusReady == StatusText("ready", "", 0, 0)
StatusDraw == StatusText("draw", "", 0, 0)
StatusRegionSet(w, h) == StatusText("region_set", "", w, h)
StatusMoved(direction, x, y) == StatusText("moved", direction, x, y)
StatusSelectFirst == StatusText("select_first", "", 0, 0)
StatusSaved(path) == StatusText("saved", path, 0, 0)
StatusError(msg) == StatusText("error", msg, 0, 0)
StatusClosed == StatusText("closed", "", 0, 0)

\* f"{w}x{h}", and the label's initial text "None"
DimensionText(w, h) == <<w, h>>
DisplayNone == <<>>

VARIABLES
    running,            \* the Tk main loop is running (root not destroyed)
    last_width, last_height, last_region,
    dimension_display,  \* text of the "Last Dimension" label
    status_label,       \* text of the status line
    selection_window,   \* handle of the current overlay, 0 = None
    canvas,             \* handle of the canvas (= its overlay's handle), 0 = None
    selection_rect,     \* canvas item id, 0 = None
    rect_width, rect_height,
    region_set,
    dimension_label_id, \* canvas item id, 0 = None
    drag_start_x, drag_start_y,
    start_x, start_y,
    toplevels,          \* live overlay windows: handle -> window state
    events,             \* number of events dispatched so far
    mouse,              \* pointer: button held on which canvas, press point, position,
                        \* rectangle at the press
    capture,            \* what the most recent take_screenshot did with its collaborators
    raised,             \* an exception left the most recent handler
    ignored,            \* the most recent handler was a reuse with nothing to reuse
    hotkey,             \* the listener thread's position in the Ctrl+D callback
    counters_file,      \* contents of category_counters.json
    category_counters   \* self.category_counters

vars == <<running, last_width, last_height, last_region, dimension_display,
          status_label, selection_window, canvas, selection_rect, rect_width,
          rect_height, region_set, dimension_label_id, drag_start_x,
          drag_start_y, start_x, start_y, toplevels, events, mouse, capture,
          raised, ignored, hotkey, counters_file, category_counters>>

memory == <<last_width, last_height, last_region, dimension_display>>
dragvars == <<drag_start_x, drag_start_y>>
startvars == <<start_x, start_y>>
counters == <<counters_file, category_counters>>

\* what the handlers of the window keep between events
program == <<running, memory, status_label, selection_window, canvas,
             selection_rect, rect_width, rect_height, region_set,
             dimension_label_id, dragvars, startvars, toplevels>>

\* --------------------------------------------------------------- the canvas
Item(type, tags, coords, text) ==
    [type |-> type, tags |-> tags, coords |-> coords, text |-> text]

\* tk.Toplevel + tk.Canvas with the three canvas bindings and the key
\* bindings of start_new_region
NewToplevel ==
    [alpha |-> AlphaDraw, withdrawn |-> FALSE,
     items |-> <<>>, next_id |-> 1,
     button1 |-> "start_selection",
     motion |-> "update_selection",
     release |-> "end_selection",
     keys |-> TRUE]

\* lines 139-143 alone: the window before it has a canvas and bindings
BareToplevel ==
    [NewToplevel EXCEPT !.button1 = "none", !.motion = "none", !.release = "none",
                        !.keys = FALSE]

MouseUp == [down |-> 0, press |-> None, pos |-> None, at |-> None]
NoCapture == [result |-> "idle", grab |-> None, file |-> None]

\* canvas.coords(item): the empty list when the canvas holds no such item
Coords(win, item) ==
    IF win \in DOMAIN toplevels /\ item \in DOMAIN toplevels[win].items
    THEN toplevels[win].items[item].coords
    ELSE <<>>

\* ------------------------------------------------------ category counters
\* A JSON value as json.load returns it.  An object is a dict, kept as the set
\* of its <<name, count>> members when it is flat; an object with a member
\* that is not an integer, and the values that are no object at all (a list,
\* a number, a str, None), are told apart by type only.
Json(type, flat, members) == [type |-> type, flat |-> flat, members |-> members]

FlatObjects ==
    {Json("object", TRUE, m) :
        m \in {mm \in SUBSET (CategoryNames \X (0..MaxCount)) :
                  \A a \in mm, b \in mm : a[1] = b[1] => a = b}}
NestedObject == Json("object", FALSE, {})
NonObjects == {Json(t, FALSE, {}) : t \in {"array", "number", "string", "null"}}
JsonValues == FlatObjects \cup {NestedObject} \cup NonObjects

\* {}
EmptyMapping == Json("object", TRUE, {})

\* What the path category_counters.json holds: nothing, a file open() cannot
\* read, text json.load cannot parse, or the text of a JSON value.
File(kind, value) == [kind |-> kind, value |-> value]
FileMissing == File("missing", EmptyMapping)
FileUnreadable == File("unreadable", EmptyMapping)
FileGarbage == File("garbage", EmptyMapping)
FileJson(value) == File("json", value)
FileContents ==
    {FileMissing, FileUnreadable, FileGarbage} \cup {FileJson(v) : v \in JsonValues}

\* lines 79-88: the value returned; no exception leaves the function
load_category_counters(file) ==
    IF file.kind = "missing" THEN EmptyMapping        \* line 85
    ELSE IF file.kind = "json" THEN file.value        \* line 84
    ELSE EmptyMapping                                 \* lines 86-88

\* One more event is taken from the queue and its handler runs on the UI
\* thread; no handler of the window touches the counters, and the listener
\* thread stands where it stood.
Handled(skipped) ==
    /\ events < MaxEvents
    /\ events' = events + 1
    /\ ignored' = skipped
    /\ UNCHANGED <<hotkey, counters>>

Dispatch == Handled(FALSE)

Init ==
    /\ running = TRUE
    /\ last_width = None
    /\ last_height = None
    /\ last_region = None
    /\ dimension_display = DisplayNone
    /\ status_label = StatusReady
    /\ selection_window = 0
    /\ canvas = 0
    /\ selection_rect = 0
    /\ rect_width = 0
    /\ rect_height = 0
    /\ region_set = FALSE
    /\ dimension_label_id = 0
    /\ drag_start_x = 0
    /\ drag_start_y = 0
    /\ start_x = None
    /\ start_y = None
    /\ toplevels = <<>>
    /\ events = 0
    /\ mouse = MouseUp
    /\ capture = NoCapture
    /\ raised = FALSE
    /\ ignored = FALSE
    /\ hotkey = "idle"
    /\ counters_file = FileMissing
    /\ category_counters = load_category_counters(counters_file)

\* ------------------------------------------------- update_dimension_label
\* Text and position of the label for a rectangle with coordinates c:
\* abs(int(x2-x1)) x abs(int(y2-y1)), at ((x1+x2)/2, min(y1,y2)-20); the
\* position is in half-pixel units.
LabelText(c) == DimensionText(Abs(c[3] - c[1]), Abs(c[4] - c[2]))
LabelPos(c) == <<c[1] + c[3], 2 * (Min(c[2], c[4]) - LabelOffset)>>

WithTag(items, tag) == {i \in DOMAIN items : items[i].tags = tag}
Lowest(S) == CHOOSE i \in S : \A j \in S : i <= j

\* win is the window record of the canvas, rect = self.selection_rect and
\* lbl = self.dimension_label_id.  Returns the canvas afterwards, the new
\* dimension_label_id, and whether the call raised (unpacking the empty
\* coords of a missing item, or configuring text on a non-text item).
UpdateDimensionLabel(win, rect, lbl) ==
    IF rect = 0
    THEN [win |-> win, lbl |-> lbl, err |-> FALSE]
    ELSE IF rect \notin DOMAIN win.items
    THEN [win |-> win, lbl |-> lbl, err |-> TRUE]
    ELSE
      LET c == win.items[rect].coords
          text == LabelText(c)
          pos == LabelPos(c)
      IN IF lbl = 0
         THEN \* create the text, then its background from the text's bbox
           LET id == win.next_id
               items == (id + 1) :> Item("rectangle", "dimension_label_bg", pos, None)
                           @@ id :> Item("text", "dimension_label", pos, text)
                           @@ win.items
           IN [win |-> [win EXCEPT !.items = items, !.next_id = id + 2],
               lbl |-> id, err |-> FALSE]
         ELSE IF lbl \in DOMAIN win.items /\ win.items[lbl].type # "text"
         THEN [win |-> win, lbl |-> lbl, err |-> TRUE]
         ELSE
           \* itemconfig/coords on an id the canvas does not hold change nothing
           LET it1 == IF lbl \in DOMAIN win.items
                      THEN [win.items EXCEPT ![lbl].text = text, ![lbl].coords = pos]
                      ELSE win.items
               labelled == WithTag(it1, "dimension_label")
               bgs == WithTag(it1, "dimension_label_bg")
               bbox == IF labelled = {} THEN None ELSE it1[Lowest(labelled)].coords
               it2 == IF labelled = {} THEN it1
                      ELSE IF bgs # {}
                      THEN [it1 EXCEPT ![Lowest(bgs)].coords = bbox]
                      ELSE win.next_id :> Item("rectangle", "dimension_label_bg", bbox, None)
                              @@ it1
               next == IF labelled # {} /\ bgs = {} THEN win.next_id + 1 ELSE win.next_id
           IN [win |-> [win EXCEPT !.items = it2, !.next_id = next],
               lbl |-> lbl, err |-> FALSE]

\* --------------------------------------------------------- start_new_region
\* Toplevel.destroy(): the window and its canvas are gone
Destroyed(wins, w) == [x \in DOMAIN wins \ {w} |-> wins[x]]

\* lines 136-137 with the destroy left out
DestroyPrevious_Leak(wins, w) == wins

\* lines 136-137
DestroyPrevious(wins, w) == IF w # 0 THEN Destroyed(wins, w) ELSE wins

\* The handle of a window made now: one that names no window, live or
\* destroyed, that the program or the pointer still refers to.
NewHandle ==
    LET used == DOMAIN toplevels \cup {selection_window, canvas, mouse.down}
    IN Lowest({h \in 1..(Cardinality(used) + 1) : h \notin used})

\* lines 161-162 reading the box as (x, y, width, height)
InitialRect_AsSize(initial_coords) ==
    <<initial_coords[1], initial_coords[2],
      initial_coords[3] - initial_coords[1], initial_coords[4] - initial_coords[2]>>

\* lines 161-162: the corners the pre-drawn rectangle is created with
InitialRect(initial_coords) == initial_coords

\* line 171 left out: the flag of the previous overlay survives
RegionSetAfterNew_Kept(old) == old

\* line 171: region_set of an overlay opened without coordinates
RegionSetAfterNew(old) == FALSE

\* lines 139-172; initial_coords is None or a 4-tuple
StartNewRegion(initial_coords) ==
    /\ Dispatch
    /\ running
    /\ LET id == NewHandle
           kept == DestroyPrevious(toplevels, selection_window)
       IN /\ selection_window' = id
          /\ canvas' = id
          /\ IF initial_coords # None
             THEN LET rect == NewToplevel.next_id
                      drawn == [NewToplevel EXCEPT
                                  !.items = rect :> Item("rectangle", "",
                                                         InitialRect(initial_coords), None),
                                  !.next_id = rect + 1]
                      lab == UpdateDimensionLabel(drawn, rect, dimension_label_id)
                      w == Abs(initial_coords[3] - initial_coords[1])
                      h == Abs(initial_coords[4] - initial_coords[2])
                  IN /\ start_x' = Some(initial_coords[1])
                     /\ start_y' = Some(initial_coords[2])
                     /\ selection_rect' = rect
                     /\ region_set' = TRUE
                     /\ rect_width' = w
                     /\ rect_height' = h
                     /\ dimension_label_id' = lab.lbl
                     /\ toplevels' = id :> [lab.win EXCEPT !.alpha = AlphaRegion,
                                                          !.button1 = "start_drag_move"]
                                        @@ kept
                     /\ status_label' = StatusRegionSet(w, h)
                     /\ raised' = lab.err
             ELSE /\ region_set' = RegionSetAfterNew(region_set)
                  /\ status_label' = StatusDraw
                  /\ toplevels' = id :> NewToplevel @@ kept
                  /\ raised' = FALSE
                  /\ UNCHANGED <<startvars, selection_rect, rect_width, rect_height,
                                 dimension_label_id>>
    /\ capture' = NoCapture
    /\ UNCHANGED <<running, memory, dragvars, mouse>>

\* "New Region" button or the Ctrl+D hotkey
NewRegion == StartNewRegion(None)

\* line 125 without the test: start_new_region is called with whatever
\* last_region holds
HasLastRegion_Untested(region) == TRUE

\* line 125: if self.last_region
HasLastRegion(region) == region # None

\* lines 123-126: the "Reuse Last Region" button
ReuseLastRegion ==
    /\ running
    /\ mouse.down = 0
    /\ IF HasLastRegion(last_region)
       THEN StartNewRegion(last_region)
       ELSE /\ Handled(TRUE)
            /\ capture' = NoCapture
            /\ raised' = FALSE
            /\ UNCHANGED <<running, memory, status_label, selection_window, canvas,
                           selection_rect, rect_width, rect_height, region_set,
                           dimension_label_id, dragvars, startvars, toplevels,
                           mouse>>

\* ------------------------------------------------------------- close_region
\* line 319 left out: the flag survives its overlay
RegionSetAfterClose_Kept(old) == old

\* line 319: self.region_set = False
RegionSetAfterClose(old) == FALSE

\* lines 313-320: button or Escape
CloseRegion ==
    /\ Dispatch
    /\ running
    /\ IF selection_window # 0
       THEN /\ toplevels' = Destroyed(toplevels, selection_window)
            /\ selection_window' = 0
            /\ selection_rect' = 0
            /\ region_set' = RegionSetAfterClose(region_set)
            /\ status_label' = StatusClosed
       ELSE UNCHANGED <<toplevels, selection_window, selection_rect, region_set,
                        status_label>>
    /\ capture' = NoCapture
    /\ raised' = FALSE
    /\ UNCHANGED <<running, memory, canvas, rect_width, rect_height,
                   dimension_label_id, dragvars, startvars, mouse>>

\* --------------------------------------------------------------- on_closing
\* lines 326-328: root.destroy() takes every child window with it and ends
\* the main loop; the window's close button is clicked with the button free
OnClosing ==
    /\ Dispatch
    /\ running
    /\ mouse.down = 0
    /\ running' = FALSE
    /\ toplevels' = <<>>
    /\ capture' = NoCapture
    /\ raised' = FALSE
    /\ UNCHANGED <<memory, status_label, selection_window, canvas, selection_rect,
                   rect_width, rect_height, region_set, dimension_label_id,
                   dragvars, startvars, mouse>>

\* ---------------------------------------------------------- take_screenshot
\* What the collaborators do in one take_screenshot: the grab, the dialog and
\* the write all succeed; the dialog is cancelled; the grab raises; the write
\* raises.
Outcomes == {"saved", "cancelled", "grab_error", "save_error"}
Errors == {"grab_error", "save_error"}
SavePath == "out.png"

\* lines 289-294
BBox(c) == <<Min(c[1], c[3]), Min(c[2], c[4]), Max(c[1], c[3]), Max(c[2], c[4])>>

\* line 284
Rejects(set, rect) == ~set \/ rect = 0

\* lines 304-307 moved in front of the dialog: recorded as soon as the grab succeeded
RecordsRegion_AfterGrab(o) == o \in {"saved", "cancelled", "save_error"}

\* lines 301-307: the memory is written after a path was chosen and the write returned
RecordsRegion(o) == o = "saved"

\* line 301 left out: the write is attempted with the empty path and raises
StatusAfter_NoPathTest(o, old) ==
    IF o = "saved" THEN StatusSaved(SavePath) ELSE StatusError(o)

\* lines 303 and 309: the status line after the try statement
StatusAfter(o, old) ==
    IF o = "saved" THEN StatusSaved(SavePath)
    ELSE IF o \in Errors THEN StatusError(o)
    ELSE old

\* line 311 at the end of the try block instead of in a finally clause
WithdrawnAfter_NoFinally(o) == o \in Errors

\* lines 296 and 310-311: withdraw(), then deiconify() in the finally clause
WithdrawnAfter(o) == FALSE

\* lines 308-309 left out
Escapes_NoExcept(o) == o \in Errors

\* lines 297 and 308-309: whether an exception of the try block leaves the handler
Escapes(o) == FALSE

\* lines 305-306
RecordedSize(w, h, bbox) == <<w, h>>

\* "Take Screenshot" button or Space
TakeScreenshot ==
    /\ Dispatch
    /\ running
    /\ IF Rejects(region_set, selection_rect)
       THEN /\ status_label' = StatusSelectFirst
            /\ capture' = [result |-> "rejected", grab |-> None, file |-> None]
            /\ raised' = FALSE
            /\ UNCHANGED <<memory, toplevels>>
       ELSE LET coords == Coords(canvas, selection_rect)
            IN IF coords = <<>> \/ selection_window \notin DOMAIN toplevels
               THEN \* indexing the empty coords, or withdrawing no window, raises
                    /\ capture' = NoCapture
                    /\ raised' = TRUE
                    /\ UNCHANGED <<memory, toplevels, status_label>>
               ELSE \E o \in Outcomes :
                    LET bbox == BBox(coords)
                        size == RecordedSize(rect_width, rect_height, bbox)
                    IN /\ capture' = [result |-> o,
                                      grab |-> bbox,
                                      file |-> IF o = "saved" THEN Some(SavePath) ELSE None]
                       /\ status_label' = StatusAfter(o, status_label)
                       /\ IF RecordsRegion(o)
                          THEN /\ last_region' = bbox
                               /\ last_width' = Some(size[1])
                               /\ last_height' = Some(size[2])
                               /\ dimension_display' = DimensionText(size[1], size[2])
                          ELSE UNCHANGED memory
                       /\ toplevels' = [toplevels EXCEPT
                                          ![selection_window].withdrawn = WithdrawnAfter(o)]
                       /\ raised' = Escapes(o)
    /\ UNCHANGED <<running, selection_window, canvas, selection_rect, rect_width,
                   rect_height, region_set, dimension_label_id, dragvars, startvars,
                   mouse>>

\* -------------------------------------------------------------- move_region
\* lines 180-188 with left and right exchanged
Dx_Swapped(direction) ==
    IF direction = "left" THEN movement_step
    ELSE IF direction = "right" THEN -movement_step
    ELSE 0

\* lines 180-188
Dx(direction) ==
    IF direction = "left" THEN -movement_step
    ELSE IF direction = "right" THEN movement_step
    ELSE 0

Dy(direction) ==
    IF direction = "up" THEN -movement_step
    ELSE IF direction = "down" THEN movement_step
    ELSE 0

\* canvas.move(item, dx, dy) on the item's coordinates
Translate(c, dx, dy) == <<c[1] + dx, c[2] + dy, c[3] + dx, c[4] + dy>>

\* the rectangle stays inside the modelled range
InBounds(c) ==
    /\ c[1] \in 0..(MaxX + movement_step) /\ c[3] \in 0..(MaxX + movement_step)
    /\ c[2] \in 0..(MaxY + movement_step) /\ c[4] \in 0..(MaxY + movement_step)

\* canvas.coords(item, ...)/canvas.move(item, ...): nothing when the item is missing
SetCoords(win, item, c) ==
    IF item \in DOMAIN win.items
    THEN [win EXCEPT !.items = [win.items EXCEPT ![item].coords = c]]
    ELSE win

\* lines 174-194: the arrow keys bound on the overlay
MoveRegion(direction) ==
    /\ Dispatch
    /\ running
    /\ selection_window \in DOMAIN toplevels
    /\ toplevels[selection_window].keys
    /\ IF ~region_set \/ selection_rect = 0
       THEN /\ raised' = FALSE
            /\ UNCHANGED <<toplevels, dimension_label_id, status_label>>
       ELSE LET coords == Coords(canvas, selection_rect)
                dx == Dx(direction)
                dy == Dy(direction)
            IN IF coords = <<>>
               THEN /\ raised' = TRUE
                    /\ UNCHANGED <<toplevels, dimension_label_id, status_label>>
               ELSE LET moved == SetCoords(toplevels[canvas], selection_rect,
                                           Translate(coords, dx, dy))
                        lab == UpdateDimensionLabel(moved, selection_rect,
                                                    dimension_label_id)
                    IN /\ InBounds(Translate(coords, dx, dy))
                       /\ toplevels' = [toplevels EXCEPT ![canvas] = lab.win]
                       /\ dimension_label_id' = lab.lbl
                       /\ status_label' = StatusMoved(direction, coords[1] + dx,
                                                      coords[2] + dy)
                       /\ raised' = lab.err
    /\ capture' = NoCapture
    /\ UNCHANGED <<running, memory, selection_window, canvas, selection_rect,
                   rect_width, rect_height, region_set, dragvars, startvars,
                   mouse>>

\* ------------------------------------------------------------ mouse handlers
\* A press goes to the canvas of the visible overlay; the motions and the
\* release of that press go to the same canvas while it exists.
CanPress ==
    /\ running
    /\ mouse.down = 0
    /\ selection_window \in DOMAIN toplevels
    /\ canvas \in DOMAIN toplevels
    /\ ~toplevels[selection_window].withdrawn

Held ==
    /\ running
    /\ mouse.down # 0
    /\ mouse.down \in DOMAIN toplevels
    /\ canvas \in DOMAIN toplevels

\* at: the coordinates the rectangle had when the press began a drag
Pressed(x, y, rect) ==
    [down |-> selection_window, press |-> <<x, y>>, pos |-> <<x, y>>, at |-> rect]

\* canvas.delete(item)
Deleted(items, item) == [i \in DOMAIN items \ {item} |-> items[i]]

\* lines 196-209: <Button-1> while bound to start_selection
StartSelection(x, y) ==
    /\ Dispatch
    /\ CanPress
    /\ toplevels[selection_window].button1 = "start_selection"
    /\ LET win == toplevels[canvas]
           cleared == IF selection_rect # 0 THEN Deleted(win.items, selection_rect)
                      ELSE win.items
           rect == win.next_id
           drawn == [win EXCEPT
                       !.items = rect :> Item("rectangle", "selection_rect",
                                              <<x, y, x, y>>, None) @@ cleared,
                       !.next_id = rect + 1,
                       !.motion = "update_selection"]
           lab == UpdateDimensionLabel(drawn, rect, dimension_label_id)
       IN /\ start_x' = Some(x)
          /\ start_y' = Some(y)
          /\ selection_rect' = rect
          /\ region_set' = TRUE
          /\ toplevels' = [toplevels EXCEPT ![canvas] = lab.win]
          /\ dimension_label_id' = lab.lbl
          /\ raised' = lab.err
    /\ mouse' = Pressed(x, y, None)
    /\ capture' = NoCapture
    /\ UNCHANGED <<running, memory, status_label, selection_window, canvas,
                   rect_width, rect_height, dragvars>>

\* lines 211-215: <B1-Motion> while bound to update_selection
UpdateSelection(x, y) ==
    /\ Dispatch
    /\ Held
    /\ toplevels[mouse.down].motion = "update_selection"
    /\ IF selection_rect # 0
       THEN LET sized == SetCoords(toplevels[canvas], selection_rect,
                                   <<start_x[1], start_y[1], x, y>>)
                lab == UpdateDimensionLabel(sized, selection_rect, dimension_label_id)
            IN /\ toplevels' = [toplevels EXCEPT ![canvas] = lab.win]
               /\ dimension_label_id' = lab.lbl
               /\ raised' = lab.err
       ELSE /\ raised' = FALSE
            /\ UNCHANGED <<toplevels, dimension_label_id>>
    /\ mouse' = [mouse EXCEPT !.pos = <<x, y>>]
    /\ capture' = NoCapture
    /\ UNCHANGED <<running, memory, status_label, selection_window, canvas,
                   selection_rect, rect_width, rect_height, region_set, dragvars,
                   startvars>>

\* lines 221-222 without abs()
RecordedExtent_Signed(a, b) == b - a

\* lines 221-222: abs(int(coords[2] - coords[0]))
RecordedExtent(a, b) == Abs(b - a)

\* lines 217-224: <ButtonRelease-1> while bound to end_selection
EndSelection ==
    /\ Dispatch
    /\ Held
    /\ toplevels[mouse.down].release = "end_selection"
    /\ IF selection_rect # 0
       THEN LET coords == Coords(canvas, selection_rect)
            IN IF coords = <<>>
               THEN /\ raised' = TRUE
                    /\ UNCHANGED <<rect_width, rect_height, toplevels>>
               ELSE /\ rect_width' = RecordedExtent(coords[1], coords[3])
                    /\ rect_height' = RecordedExtent(coords[2], coords[4])
                    /\ toplevels' = [toplevels EXCEPT
                                       ![canvas].motion = "none",
                                       ![canvas].button1 = "start_drag_move"]
                    /\ raised' = FALSE
       ELSE /\ raised' = FALSE
            /\ UNCHANGED <<rect_width, rect_height, toplevels>>
    /\ mouse' = MouseUp
    /\ capture' = NoCapture
    /\ UNCHANGED <<running, memory, status_label, selection_window, canvas,
                   selection_rect, region_set, dimension_label_id, dragvars,
                   startvars>>

\* line 232 binding the sizing handler again
DragMotion_Resizes == "update_selection"

\* line 232: the handler <B1-Motion> is bound to during a drag
DragMotion == "update_drag_move"

\* lines 226-233: <Button-1> while bound to start_drag_move
StartDragMove(x, y) ==
    /\ Dispatch
    /\ CanPress
    /\ toplevels[selection_window].button1 = "start_drag_move"
    /\ IF selection_rect # 0
       THEN /\ drag_start_x' = x
            /\ drag_start_y' = y
            /\ toplevels' = [toplevels EXCEPT
                               ![canvas].motion = DragMotion,
                               ![canvas].release = "end_drag_move"]
       ELSE UNCHANGED <<dragvars, toplevels>>
    /\ mouse' = Pressed(x, y, Coords(canvas, selection_rect))
    /\ capture' = NoCapture
    /\ raised' = FALSE
    /\ UNCHANGED <<running, memory, status_label, selection_window, canvas,
                   selection_rect, rect_width, rect_height, region_set,
                   dimension_label_id, startvars>>

\* lines 242-243 left out: the anchor stays at the press point
DragAnchor_Kept(ev, old) == old

\* lines 242-243: the anchor after a move is the pointer position of the event
DragAnchor(ev, old) == ev

\* lines 235-244: <B1-Motion> while bound to update_drag_move.  canvas.move
\* of a missing item moves nothing and update_dimension_label then raises.
UpdateDragMove(x, y) ==
    /\ Dispatch
    /\ Held
    /\ toplevels[mouse.down].motion = "update_drag_move"
    /\ IF selection_rect # 0
       THEN LET coords == Coords(canvas, selection_rect)
                dx == x - drag_start_x
                dy == y - drag_start_y
                moved == SetCoords(toplevels[canvas], selection_rect,
                                   Translate(coords, dx, dy))
                lab == UpdateDimensionLabel(moved, selection_rect, dimension_label_id)
            IN /\ coords # <<>> => InBounds(Translate(coords, dx, dy))
               /\ toplevels' = [toplevels EXCEPT ![canvas] = lab.win]
               /\ dimension_label_id' = lab.lbl
               /\ raised' = lab.err
               /\ drag_start_x' = DragAnchor(x, drag_start_x)
               /\ drag_start_y' = DragAnchor(y, drag_start_y)
       ELSE /\ raised' = FALSE
            /\ UNCHANGED <<toplevels, dimension_label_id, dragvars>>
    /\ mouse' = [mouse EXCEPT !.pos = <<x, y>>]
    /\ capture' = NoCapture
    /\ UNCHANGED <<running, memory, status_label, selection_window, canvas,
                   selection_rect, rect_width, rect_height, region_set, startvars>>

\* lines 246-249: <ButtonRelease-1> while bound to end_drag_move
EndDragMove ==
    /\ Dispatch
    /\ Held
    /\ toplevels[mouse.down].release = "end_drag_move"
    /\ toplevels' = [toplevels EXCEPT ![canvas].motion = "none",
                                      ![canvas].release = "none"]
    /\ mouse' = MouseUp
    /\ capture' = NoCapture
    /\ raised' = FALSE
    /\ UNCHANGED <<running, memory, status_label, selection_window, canvas,
                   selection_rect, rect_width, rect_height, region_set,
                   dimension_label_id, dragvars, startvars>>

\* The button is released after the overlay that took the press was destroyed
\* (Escape, or a new region, during the press): no handler runs.
ReleaseUnhandled ==
    /\ Dispatch
    /\ running
    /\ mouse.down # 0
    /\ IF mouse.down \in DOMAIN toplevels
       THEN toplevels[mouse.down].release = "none"
       ELSE TRUE
    /\ mouse' = MouseUp
    /\ capture' = NoCapture
    /\ raised' = FALSE
    /\ UNCHANGED <<running, memory, status_label, selection_window, canvas,
                   selection_rect, rect_width, rect_height, region_set,
                   dimension_label_id, dragvars, startvars, toplevels>>

\* ------------------------------------------------------------ specification
Next ==
    \/ NewRegion
    \/ ReuseLastRegion
    \/ CloseRegion
    \/ TakeScreenshot
    \/ \E d \in Directions : MoveRegion(d)
    \/ \E x \in XS, y \in YS : StartSelection(x, y)
    \/ \E x \in XS, y \in YS : UpdateSelection(x, y)
    \/ EndSelection
    \/ \E x \in XS, y \in YS : StartDragMove(x, y)
    \/ \E x \in XS, y \in YS : UpdateDragMove(x, y)
    \/ EndDragMove
    \/ ReleaseUnhandled
    \/ OnClosing

Spec == Init /\ [][Next]_vars

\* ------------------------------------------------ the Ctrl+D listener thread
\* keyboard.add_hotkey('ctrl+d', self.start_new_region) (line 77): the callback
\* runs on the keyboard library's thread, not as an event of the main loop.
\* Its Tk calls are carried out between two events of the main loop, so a
\* handler of the UI thread can run between any two of its statements.  hotkey
\* is the line the thread executes next, "idle" outside the callback.
threadvars == <<running, memory, rect_width, rect_height, dimension_label_id,
                dragvars, startvars, mouse, counters>>

\* Ctrl+D is pressed: the listener thread enters start_new_region()
HotkeyPressed ==
    /\ running
    /\ hotkey = "idle"
    /\ events < MaxEvents
    /\ events' = events + 1
    /\ hotkey' = "L136"
    /\ capture' = NoCapture
    /\ ignored' = FALSE
    /\ UNCHANGED <<program, mouse, raised, counters>>

\* lines 136-137 on the listener thread
HotkeyDestroy ==
    /\ running
    /\ hotkey = "L136"
    /\ toplevels' = DestroyPrevious(toplevels, selection_window)
    /\ hotkey' = "L139"
    /\ UNCHANGED <<threadvars, status_label, selection_window, canvas, selection_rect,
                   region_set, events, capture, raised, ignored>>

\* lines 139-143 on the listener thread
HotkeyToplevel ==
    /\ running
    /\ hotkey = "L139"
    /\ selection_window' = NewHandle
    /\ toplevels' = NewHandle :> BareToplevel @@ toplevels
    /\ hotkey' = "L145"
    /\ UNCHANGED <<threadvars, status_label, canvas, selection_rect, region_set,
                   events, capture, raised, ignored>>

\* lines 145-158 on the listener thread: the canvas is made a child of what
\* self.selection_window is now and becomes self.canvas; the bindings follow.
\* With self.selection_window None (closed meanwhile) the canvas lands in the
\* control window and line 150 raises AttributeError, which ends the callback.
HotkeyCanvas ==
    /\ running
    /\ hotkey = "L145"
    /\ IF selection_window \in DOMAIN toplevels
       THEN /\ canvas' = selection_window
            /\ toplevels' = [toplevels EXCEPT ![selection_window] =
                                [NewToplevel EXCEPT
                                    !.alpha = toplevels[selection_window].alpha,
                                    !.withdrawn = toplevels[selection_window].withdrawn]]
            /\ hotkey' = "L160"
            /\ raised' = raised
       ELSE /\ canvas' = NewHandle
            /\ hotkey' = "idle"
            /\ raised' = TRUE
            /\ UNCHANGED toplevels
    /\ UNCHANGED <<threadvars, status_label, selection_window, selection_rect,
                   region_set, events, capture, ignored>>

\* lines 160 and 170-172 on the listener thread (initial_coords is None)
HotkeyFinish ==
    /\ running
    /\ hotkey = "L160"
    /\ region_set' = RegionSetAfterNew(region_set)
    /\ status_label' = StatusDraw
    /\ hotkey' = "idle"
    /\ UNCHANGED <<threadvars, selection_window, canvas, selection_rect, toplevels,
                   events, capture, raised, ignored>>

NextHotkey ==
    \/ Next
    \/ HotkeyPressed
    \/ HotkeyDestroy
    \/ HotkeyToplevel
    \/ HotkeyCanvas
    \/ HotkeyFinish

SpecHotkey == Init /\ [][NextHotkey]_vars

\* ------------------------------------------------- the counters file alone
\* What the window keeps, the event count and the listener thread: untouched
\* by the two counters functions and by whoever edits the file.
window == <<program, events, mouse, capture, raised, ignored, hotkey>>

\* The file is replaced from outside the program.
WriteFile(contents) ==
    /\ counters_file' = contents
    /\ UNCHANGED <<category_counters, window>>

\* line 58, and any later call: self.category_counters = load_category_counters()
LoadCounters ==
    /\ category_counters' = load_category_counters(counters_file)
    /\ UNCHANGED <<counters_file, window>>

\* lines 90-96: the file holds the dumped counters, or open() raised and the
\* file is as it was, or the write broke off and left a text that does not
\* parse; the exception is printed
SaveOutcomes == {"written", "open_error", "write_error"}
save_category_counters(file, value, o) ==
    IF o = "written" THEN FileJson(value)
    ELSE IF o = "write_error" THEN FileGarbage
    ELSE file

SaveCounters ==
    \E o \in SaveOutcomes :
        /\ counters_file' = save_category_counters(counters_file, category_counters, o)
        /\ UNCHANGED <<category_counters, window>>

NextCounters ==
    \/ \E contents \in FileContents : WriteFile(contents)
    \/ LoadCounters
    \/ SaveCounters

SpecCounters == Init /\ [][NextCounters]_vars

\* ------------------------------------------------------------ selector state
Overlay == selection_window \in DOMAIN toplevels

\* the rectangle take_screenshot and move_region would read
RectCoords == Coords(canvas, selection_rect)

\* the button is held on the current overlay
HeldOnOverlay == Overlay /\ mouse.down = selection_window

\* Sizing: after the press that starts a rectangle, before its release
Sizing == HeldOnOverlay /\ toplevels[selection_window].button1 = "start_selection"

\* Finalized or Dragging: a release has ended sizing, or the overlay was opened
\* with initial coordinates
RegionFinalized == Overlay /\ toplevels[selection_window].button1 = "start_drag_move"

\* the step just taken was a take_screenshot
Captured == capture.result # "idle"

\* --------------------------------------------------------------- properties
LastMemory == <<last_region, last_width, last_height>>

\* C1: take_screenshot invoked while no region is finalized (no overlay, Empty,
\* or Sizing between press and release) sets the "select a region first"
\* status, leaves LastRegion (box, width, height) unchanged and does not call
\* the bitmap-capture primitive.
C1_RejectedUnlessFinalized ==
    [][(Captured' /\ ~RegionFinalized) =>
          /\ status_label' = StatusSelectFirst
          /\ LastMemory' = LastMemory
          /\ capture'.grab = None]_vars

\* C2: every live overlay window is the current one, so at most one overlay
\* exists and an overlay replaced by start_new_region has been destroyed.
C2_AtMostOneOverlay ==
    /\ DOMAIN toplevels \subseteq {selection_window}
    /\ Cardinality(DOMAIN toplevels) <= 1

\* start_new_region has replaced an overlay that held a rectangle (the handle
\* of that rectangle is still stored) and the new overlay is the only one
C2_Witness ==
    /\ DOMAIN toplevels = {selection_window}
    /\ ~region_set
    /\ selection_rect # 0
    /\ RectCoords = <<>>
    /\ status_label = StatusDraw

\* a new overlay was opened with initial coordinates in this step
ReuseStep == selection_window' \notin {0, selection_window} /\ region_set'

\* C3: reuse_last_region opens an overlay whose rectangle has exactly the four
\* coordinates of the recorded box, in Finalized state, and a capture taken
\* while the rectangle still has those coordinates grabs that box again and,
\* when saved, records it again.
C3_ReuseRoundTrip ==
    [][/\ ReuseStep =>
            /\ last_region # None
            /\ RectCoords' = last_region
            /\ RegionFinalized'
            /\ mouse'.down # selection_window'
            /\ BBox(RectCoords') = last_region
       /\ (Captured' /\ capture'.grab # None /\ RectCoords = last_region) =>
            /\ capture'.grab = last_region
            /\ last_region' = last_region]_vars

\* reuse has opened an overlay (only its rectangles carry no tag) on the box
\* recorded by a finished drag-to-draw: the rectangle has the four coordinates
\* of that box and is finalized
C3_Witness ==
    /\ status_label.kind = "region_set"
    /\ last_region # None
    /\ last_region[1] < last_region[3]
    /\ last_region[2] < last_region[4]
    /\ RegionFinalized
    /\ toplevels[selection_window].items[selection_rect].tags = ""
    /\ RectCoords = last_region
    /\ BBox(RectCoords) = last_region
    /\ last_width = Some(last_region[3] - last_region[1])

\* C4: no overlay is left withdrawn when a handler has returned, whichever way
\* take_screenshot ended (saved, cancelled, capture raised, write raised).
C4_OverlayRestored ==
    \A w \in DOMAIN toplevels : ~toplevels[w].withdrawn

\* take_screenshot hid the overlay, the capture raised, the overlay is shown
C4_Witness ==
    /\ capture.result = "grab_error"
    /\ capture.grab # None
    /\ Overlay
    /\ ~toplevels[selection_window].withdrawn

\* C5: when the capture or the write raises, no exception leaves
\* take_screenshot, the status line shows an error message, LastRegion and
\* the displayed last dimension are unchanged, and the session goes on: the
\* main loop runs and the overlay is still there, shown.
C5_CaptureErrorContained ==
    [][capture'.result \in Errors =>
          /\ ~raised'
          /\ status_label'.kind = "error"
          /\ LastMemory' = LastMemory
          /\ dimension_display' = dimension_display
          /\ running'
          /\ selection_window' = selection_window
          /\ selection_window' \in DOMAIN toplevels'
          /\ ~toplevels'[selection_window'].withdrawn]_vars

\* the write raised for a box other than the recorded one; the memory still
\* holds the earlier capture
C5_Witness ==
    /\ capture.result = "save_error"
    /\ status_label = StatusError("save_error")
    /\ last_region # None
    /\ last_region # capture.grab
    /\ running
    /\ ~raised

\* C6 as stated: after a cancelled save dialog the status line reflects the
\* cancelled capture instead of keeping the text it had; no file is written
\* and the overlay is restored.
C6_CancelSurfaced ==
    [][capture'.result = "cancelled" =>
          /\ status_label' # status_label
          /\ capture'.file = None
          /\ ~toplevels'[selection_window'].withdrawn]_vars

\* C6 amended: after a cancelled save dialog the status line keeps the text it
\* had before the call, no file is written, LastRegion and the displayed last
\* dimension are unchanged and the overlay is restored.
C6_CancelSilent ==
    [][capture'.result = "cancelled" =>
          /\ status_label' = status_label
          /\ capture'.file = None
          /\ LastMemory' = LastMemory
          /\ dimension_display' = dimension_display
          /\ ~raised'
          /\ selection_window' \in DOMAIN toplevels'
          /\ ~toplevels'[selection_window'].withdrawn]_vars

\* the dialog was cancelled for a finalized region; the status line still
\* shows the text start_new_region wrote
C6_Witness ==
    /\ capture.result = "cancelled"
    /\ capture.grab # None
    /\ RegionFinalized
    /\ status_label = StatusDraw
    /\ ~toplevels[selection_window].withdrawn

\* the release that ends sizing is dispatched in this step
SizingRelease == Sizing /\ selection_rect # 0 /\ mouse'.down = 0

\* C7: the width and height recorded at the release of a sizing drag are
\* |P2.x - P1.x| and |P2.y - P1.y| for press point P1 and last pointer
\* position P2, in every drag direction and for P1 = P2.
C7_RecordedSize ==
    [][SizingRelease =>
          /\ rect_width' = Abs(mouse.pos[1] - mouse.press[1])
          /\ rect_height' = Abs(mouse.pos[2] - mouse.press[2])]_vars

\* a rectangle dragged up and to the left has been finalized with its size
C7_Witness ==
    /\ RegionFinalized
    /\ mouse.down = 0
    /\ RectCoords # <<>>
    /\ RectCoords[3] < RectCoords[1]
    /\ RectCoords[4] < RectCoords[2]
    /\ rect_width = RectCoords[1] - RectCoords[3]
    /\ rect_height = RectCoords[2] - RectCoords[4]

\* the translation one arrow key stands for
Nudge(direction) ==
    CASE direction = "left" -> <<-1, 0>>
      [] direction = "right" -> <<1, 0>>
      [] direction = "up" -> <<0, -1>>
      [] direction = "down" -> <<0, 1>>

\* C8: an arrow-key nudge of a region translates the rectangle by exactly one
\* pixel along the key's axis (both x coordinates for left/right, both y
\* coordinates for up/down), changes nothing on the other axis and leaves the
\* recorded width and height as they were.
C8_NudgeTranslates ==
    [][\A d \in Directions :
          (MoveRegion(d) /\ region_set /\ selection_rect # 0) =>
             /\ RectCoords'[1] = RectCoords[1] + Nudge(d)[1]
             /\ RectCoords'[3] = RectCoords[3] + Nudge(d)[1]
             /\ RectCoords'[2] = RectCoords[2] + Nudge(d)[2]
             /\ RectCoords'[4] = RectCoords[4] + Nudge(d)[2]
             /\ rect_width' = rect_width
             /\ rect_height' = rect_height
             /\ RectCoords'[3] - RectCoords'[1] = RectCoords[3] - RectCoords[1]
             /\ RectCoords'[4] - RectCoords'[2] = RectCoords[4] - RectCoords[2]]_vars

\* a finalized 1x1 region has just been nudged to the right
C8_Witness ==
    /\ RegionFinalized
    /\ status_label.kind = "moved"
    /\ status_label.s = "right"
    /\ capture.result = "idle"
    /\ rect_width = 1
    /\ rect_height = 1
    /\ RectCoords # <<>>
    /\ RectCoords[1] = status_label.a
    /\ Abs(RectCoords[3] - RectCoords[1]) = 1
    /\ Abs(RectCoords[4] - RectCoords[2]) = 1

\* C9: the stored last width and height and the displayed last dimension
\* equal right-left and bottom-top of the stored LastRegion box; all are
\* unset exactly when no capture has been recorded.
C9_LastSizeMatchesBox ==
    IF last_region = None
    THEN last_width = None /\ last_height = None /\ dimension_display = DisplayNone
    ELSE /\ last_width = Some(last_region[3] - last_region[1])
         /\ last_height = Some(last_region[4] - last_region[2])
         /\ dimension_display = DimensionText(last_region[3] - last_region[1],
                                              last_region[4] - last_region[2])

\* the bitmap capture of a take_screenshot succeeded
GrabSucceeded == capture.result \in {"saved", "cancelled", "save_error"}

\* C10 as stated: after every take_screenshot whose bitmap capture of box B
\* succeeded LastRegion equals B, and no other step changes LastRegion.
C10_RecordedOnCapture ==
    [][IF GrabSucceeded'
       THEN last_region' = capture'.grab
       ELSE last_region' = last_region]_vars

\* C10 amended: after every take_screenshot in which the capture of box B
\* succeeded, a path was chosen and the write returned, LastRegion equals B;
\* every other step (cancelled dialog, capture or write error, rejected
\* capture, move, drag, new region, reuse, close) leaves LastRegion unchanged.
C10_RecordedOnSave ==
    [][IF capture'.result = "saved"
       THEN last_region' = capture'.grab /\ capture'.grab = BBox(RectCoords)
       ELSE last_region' = last_region]_vars

\* a second save has replaced the recorded box by the box captured last
C10_Witness ==
    /\ capture.result = "saved"
    /\ last_region = capture.grab
    /\ last_region = BBox(RectCoords)
    /\ last_region # <<0, 0, 0, 0>>
    /\ last_region[1] < last_region[3]

\* C11: close_region (button or Escape) from any selector state leaves no
\* overlay and none of that overlay's rectangle state: no rectangle handle,
\* no region-set flag and no dimension-label handle; with no overlay it
\* changes no state; in both cases nothing is raised.
C11_CloseClearsAll ==
    [][CloseRegion =>
          /\ ~raised'
          /\ IF selection_window # 0
             THEN /\ DOMAIN toplevels' = {}
                  /\ selection_window' = 0
                  /\ selection_rect' = 0
                  /\ ~region_set'
                  /\ dimension_label_id' = 0
             ELSE UNCHANGED program]_vars

\* C12: reuse_last_region invoked before any capture has been recorded opens
\* no overlay, destroys no existing overlay, and changes neither the selector
\* state nor the status line (nor anything else the program keeps).
C12_ReuseWithoutCapture ==
    [][(ReuseLastRegion /\ last_region = None) =>
          /\ UNCHANGED program
          /\ ~raised']_vars

\* a reuse was requested with an overlay open on a finalized rectangle and no
\* capture recorded: the overlay and its rectangle are as they were
C12_Witness ==
    /\ ignored
    /\ last_region = None
    /\ RegionFinalized
    /\ RectCoords = <<0, 0, 1, 1>>
    /\ status_label = StatusDraw

\* the file holds the text of a flat JSON object
WellFormed(file) == file.kind = "json" /\ file.value \in FlatObjects

\* C13: load_category_counters never raises, its result is always a mapping,
\* and it is the empty mapping whenever the counters file is missing,
\* unreadable, or does not hold a well-formed flat JSON object (content that
\* parses as JSON but is not an object included).
C13_LoadYieldsMapping ==
    [][LoadCounters =>
          /\ ~raised'
          /\ category_counters'.type = "object"
          /\ ~WellFormed(counters_file) => category_counters' = EmptyMapping]_vars

\* C14: in every overlay, whenever its rectangle is present, the canvas
\* holds a dimension label whose text is |width|x|height| of the rectangle
\* and whose position is centered above the rectangle's top edge, after every
\* sizing move, drag move and arrow nudge.
C14_LabelFollowsRectangle ==
    (Overlay /\ RectCoords # <<>>) =>
        \E i \in WithTag(toplevels[canvas].items, "dimension_label") :
            /\ toplevels[canvas].items[i].text = LabelText(RectCoords)
            /\ toplevels[canvas].items[i].coords = LabelPos(RectCoords)

\* the overlay, its rectangle and the region-set flag
shared == <<selection_window, canvas, selection_rect, region_set, toplevels>>

\* C15: under every interleaving of the Ctrl+D callback on the listener
\* thread with the handlers of the UI thread, the shared state (overlay,
\* rectangle, region-set flag) changes only in steps of the UI thread, at
\* most one overlay exists, and no handler raises for operating on an
\* overlay that has been destroyed.
C15_HotkeySafe ==
    [][/\ shared' # shared => hotkey' = hotkey
       /\ Cardinality(DOMAIN toplevels') <= 1
       /\ ~raised']_vars

\* C15, second part alone: at most one overlay exists
C15_OneOverlay == Cardinality(DOMAIN toplevels) <= 1

\* C15, third part alone: no handler raises on a destroyed overlay
C15_NothingRaised == ~raised

\* width and height of the rectangle with coordinates c
Extent(c) == <<Abs(c[3] - c[1]), Abs(c[4] - c[2])>>

\* C16: once a region is Finalized (by the release that ends sizing or by
\* opening the overlay with initial coordinates) the rectangle's width and
\* height equal the recorded values and stay so through every press, move,
\* release and arrow key in that overlay; the region stays Finalized, and a
\* press begins a move-drag, never a resize.
C16_FinalizedSizeFixed ==
    [][/\ (RegionFinalized' /\ running') =>
             /\ RectCoords' # <<>>
             /\ Extent(RectCoords') = <<rect_width', rect_height'>>
             /\ (mouse.down = 0 /\ mouse'.down # 0) =>
                    /\ toplevels'[selection_window'].motion = "update_drag_move"
                    /\ RectCoords' = RectCoords
       /\ (RegionFinalized /\ selection_window' = selection_window /\ running') =>
             /\ RegionFinalized'
             /\ <<rect_width', rect_height'>> = <<rect_width, rect_height>>]_vars

\* a press on a finalized 1x1 rectangle was followed by a pointer move: the
\* rectangle has moved and is still 1x1
C16_Witness ==
    /\ RegionFinalized
    /\ mouse.down = selection_window
    /\ toplevels[selection_window].motion = "update_drag_move"
    /\ mouse.pos # mouse.press
    /\ rect_width = 1
    /\ rect_height = 1
    /\ RectCoords = <<1, 0, 2, 1>>

\* Dragging: the button is held after a press on a finalized region
Dragging == HeldOnOverlay /\ toplevels[selection_window].motion = "update_drag_move"

\* C17: during Dragging each pointer move translates the rectangle by
\* (current pointer - previous pointer) and sets the anchor to the current
\* pointer; the drag starts with the anchor at the press point A, so as long
\* as no arrow key has moved the rectangle its total translation since the
\* press is (current pointer - A), whatever path the pointer took.
C17_DragTranslation ==
    [][/\ (mouse.down = 0 /\ Dragging') =>
             /\ mouse'.at = RectCoords'
             /\ mouse'.pos = mouse'.press
             /\ <<drag_start_x', drag_start_y'>> = mouse'.press
       /\ ((\E x \in XS, y \in YS : UpdateDragMove(x, y)) /\ RectCoords # <<>>) =>
             /\ RectCoords' = Translate(RectCoords, mouse'.pos[1] - mouse.pos[1],
                                                    mouse'.pos[2] - mouse.pos[2])
             /\ <<drag_start_x', drag_start_y'>> = mouse'.pos
             /\ RectCoords = Translate(mouse.at, mouse.pos[1] - mouse.press[1],
                                                 mouse.pos[2] - mouse.press[2])
                    => RectCoords' = Translate(mouse.at, mouse'.pos[1] - mouse.press[1],
                                                        mouse'.pos[2] - mouse.press[2])]_vars

\* a drag pressed at A = (0,0) has its pointer at Z = (0,1): the rectangle
\* that was at (0,0,1,1) at the press is at (0,1,1,2)
C17_Witness ==
    /\ Dragging
    /\ mouse.press = <<0, 0>>
    /\ mouse.pos = <<0, 1>>
    /\ mouse.at = <<0, 0, 1, 1>>
    /\ RectCoords = <<0, 1, 1, 2>>
    /\ <<drag_start_x, drag_start_y>> = mouse.pos

\* Empty: an overlay that shows nothing and awaits the press that starts a
\* rectangle
Empty ==
    /\ Overlay
    /\ canvas = selection_window
    /\ DOMAIN toplevels[canvas].items = {}
    /\ ~region_set
    /\ toplevels[selection_window].button1 = "start_selection"

\* C18: start_new_region without initial coordinates, from any prior state,
\* yields the only overlay, in Empty state: it shows no rectangle; there
\* take_screenshot is rejected and arrow keys change nothing, and the overlay
\* stays Empty until a press; the first press enters Sizing with a rectangle
\* whose both corners equal the press point.
C18_NewRegionIsEmpty ==
    [][/\ NewRegion => (Empty' /\ DOMAIN toplevels' = {selection_window'})
       /\ (Empty /\ Captured') =>
             /\ capture'.result = "rejected"
             /\ status_label' = StatusSelectFirst
             /\ UNCHANGED memory
       /\ (Empty /\ \E direction \in Directions : MoveRegion(direction)) =>
             UNCHANGED program
       /\ (Empty /\ selection_window' = selection_window /\ running'
                 /\ mouse'.down # selection_window) => Empty'
       /\ (Empty /\ mouse'.down = selection_window) =>
             /\ Sizing'
             /\ RectCoords' = <<mouse'.press[1], mouse'.press[2],
                                mouse'.press[1], mouse'.press[2]>>]_vars

\* the first press, at (1,1), on an overlay that replaced one holding a
\* rectangle (whose label handle is still stored)
C18_Witness ==
    /\ Sizing
    /\ selection_window # 1
    /\ dimension_label_id # 0
    /\ WithTag(toplevels[canvas].items, "dimension_label") = {}
    /\ mouse.press = <<1, 1>>
    /\ mouse.pos = mouse.press
    /\ RectCoords = <<1, 1, 1, 1>>

\* C19: in every state where the overlay holds a finalized region, reached by
\* finishing a drag-to-draw or by reuse, the overlay's alpha is lower than
\* the alpha of the initial draw phase.
C19_ReducedAlphaWhenFinalized ==
    RegionFinalized => toplevels[selection_window].alpha < AlphaDraw

\* C20: under serial dispatch, while the program runs, region_set implies that
\* the overlay exists and that selection_rect is a rectangle item of the
\* current overlay's canvas, so the coordinates take_screenshot and
\* move_region read are those of a present rectangle; no handler raises.
C20_RegionSetHasRectangle ==
    /\ (running /\ region_set) =>
          /\ Overlay
          /\ canvas = selection_window
          /\ selection_rect \in DOMAIN toplevels[canvas].items
          /\ toplevels[canvas].items[selection_rect].type = "rectangle"
          /\ Len(RectCoords) = 4
    /\ ~raised

\* an arrow key has read and moved the rectangle of a second overlay, opened
\* by reuse after the first overlay was destroyed
C20_Witness ==
    /\ running
    /\ region_set
    /\ selection_window # 1
    /\ last_region # None
    /\ status_label.kind = "moved"
    /\ RectCoords # <<>>
    /\ RectCoords[1] = status_label.a
====
